---- MODULE Spec2Model ----
(***************************************************************************)
(* hassh.py: HASSH fingerprints of SSH key-exchange packets, from capture  *)
(* files (process_pcap_file, driven by main) and from live traffic         *)
(* (live_capture).                                                         *)
(*                                                                         *)
(* A Python str is a Text: a sequence of tokens, each token one character  *)
(* or an unbroken chunk of characters; every character the code inserts or *)
(* inspects (';' ',' '"' ':' '_', digits of a port) is a token of its own, *)
(* so concatenation, join and format are \o.                               *)
(* Python None is the sentinel None below; a dict is a function            *)
(* and "k in d" is k \in DOMAIN d; a record (dict with str keys) is a TLA+ *)
(* record and "'f' in record" is "f" \in DOMAIN record.                    *)
(***************************************************************************)
EXTENDS Integers, Sequences, FiniteSets, TLC

VARIABLES
    caps,           \* the capture sources: caps[i] is the packet sequence of file i
                    \* (for live_capture, caps[1] is the stream that arrives)
    fprint,         \* args.fingerprint: "client", "server" or "all"
    lf,             \* args.log_format: "json", "csv" or "none" (not given)
    mode,           \* which branch of main runs: "file", "dir", "live"; "call" when
                    \* a function is called on its own
    pc,             \* control point of main / process_pcap_file
    fidx,           \* index of the file being processed
    pos,            \* packets the "for packet in cap" loop has taken from caps[fidx]
    protocol_dict,  \* process_pcap_file's protocol_dict
    results,        \* process_pcap_file's results list
    closed,         \* cap.close() has been called on the current FileCapture
    li,             \* records of output that main's logging loop has handled
    log,            \* main's log file: the lines handed to logger.info
    live_pc,        \* control point of live_capture
    live_pos,       \* packets taken from cap.sniff_continuously()
    live_dict,      \* live_capture's protocol_dict
    live_log,       \* live_capture's log file
    live_closed     \* the LiveCapture has been closed

vars == <<caps, fprint, lf, mode, pc, fidx, pos, protocol_dict, results, closed,
          li, log, live_pc, live_pos, live_dict, live_log, live_closed>>

replay_vars == <<pc, fidx, pos, protocol_dict, results, closed, li, log>>
live_vars == <<live_pc, live_pos, live_dict, live_log, live_closed>>
arg_vars == <<caps, fprint, lf, mode>>

----------------------------------------------------------------------------
(* Bounds *)

MaxPackets == 3         \* longest capture replayed by process_pcap_file

----------------------------------------------------------------------------
(* Python values *)

None == <<"#None">>     \* Python's None: a Text no packet field can hold
Empty == <<>>           \* the str ""

\* str(x), as str.format renders a value: None becomes the text None
str(x) == IF x = None THEN <<"None">> ELSE x

DigitVal(c) ==
    CASE c = "0" -> 0 [] c = "1" -> 1 [] c = "2" -> 2 [] c = "3" -> 3
      [] c = "4" -> 4 [] c = "5" -> 5 [] c = "6" -> 6 [] c = "7" -> 7
      [] c = "8" -> 8 [] c = "9" -> 9

\* int(s) of a decimal digit string
RECURSIVE int(_)
int(s) ==
    IF Len(s) = 0 THEN 0
    ELSE 10 * int(SubSeq(s, 1, Len(s) - 1)) + DigitVal(s[Len(s)])

\* sep.join(parts)
RECURSIVE join(_, _)
join(sep, parts) ==
    IF Len(parts) = 0 THEN Empty
    ELSE IF Len(parts) = 1 THEN parts[1]
    ELSE parts[1] \o sep \o join(sep, Tail(parts))

\* md5(s.encode()).hexdigest(): one comma-free token; MD5 is taken as
\* collision-free, so the digest determines and is determined by s
md5(s) == <<"md5:" \o ToString(s)>>

\* datetime.isoformat(): one comma-free token per instant
isoformat(t) == <<"T" \o ToString(t)>>

\* d[k] = v
setitem(d, k, v) == [q \in DOMAIN d \cup {k} |-> IF q = k THEN v ELSE d[q]]

HASSH_VERSION == <<"1.0">>

----------------------------------------------------------------------------
(* Packets, as pyshark presents them: packet.highest_layer,                *)
(* packet.sniff_time, and the layers ip, tcp, ssh, each a record of its    *)
(* fields (layer.field_names is the record's DOMAIN).  A packet without an *)
(* IPv4 layer (SSH over IPv6) has no "ip" field: reading packet.ip raises  *)
(* AttributeError.                                                         *)

field_names(layer) == DOMAIN layer

\* reading packet.<layer> raises AttributeError
AttributeError(packet, layer) == layer \notin DOMAIN packet

\* srcip,sport,dstip,dport and '{}:{}_{}:{}'.format(...): dport is read
\* from packet.tcp.srcport
key(packet) ==
    packet.ip.src \o <<":">> \o packet.tcp.srcport \o <<"_">>
        \o packet.ip.dst \o <<":">> \o packet.tcp.srcport

\* Field without the default "": an absent field stays None
Field_or_None(packet, name) ==
    IF name \in field_names(packet.ssh) THEN packet.ssh[name] ELSE None

\* x = ""; if name in packet.ssh.field_names: x = packet.ssh.<name>
Field(packet, name) ==
    IF name \in field_names(packet.ssh) THEN packet.ssh[name] ELSE Empty

event_log(packet, event) ==
    [timestamp       |-> isoformat(packet.sniff_time),
     eventType       |-> <<event>>,
     eventMessage    |-> <<"This packet is a (suspected) retransmission">>,
     sourceIp        |-> packet.ip.src,
     destinationIp   |-> packet.ip.dst,
     sourcePort      |-> packet.tcp.srcport,
     destinationPort |-> packet.tcp.dstport]

\* protocol = None; if key in pdict: protocol = pdict[key]
lookup(packet, pdict) ==
    IF key(packet) \in DOMAIN pdict THEN pdict[key(packet)] ELSE None

\* mutant: MAC before encryption
client_hassh_str_swapped(packet) ==
    join(<<";">>, <<Field(packet, "kex_algorithms"),
                    Field(packet, "mac_algorithms_client_to_server"),
                    Field(packet, "encryption_algorithms_client_to_server"),
                    Field(packet, "compression_algorithms_client_to_server")>>)

\* mutant: the encryption list of the other direction
client_hassh_str_peer(packet) ==
    join(<<";">>, <<Field(packet, "kex_algorithms"),
                    Field(packet, "encryption_algorithms_server_to_client"),
                    Field(packet, "mac_algorithms_client_to_server"),
                    Field(packet, "compression_algorithms_client_to_server")>>)

\* hassh_str = ';'.join([ckex, ceacts, cmacts, ccacts])
client_hassh_str(packet) ==
    join(<<";">>, <<Field(packet, "kex_algorithms"),
                    Field(packet, "encryption_algorithms_client_to_server"),
                    Field(packet, "mac_algorithms_client_to_server"),
                    Field(packet, "compression_algorithms_client_to_server")>>)

client_hassh(packet, pdict) ==
    [timestamp       |-> isoformat(packet.sniff_time),
     sourceIp        |-> packet.ip.src,
     destinationIp   |-> packet.ip.dst,
     sourcePort      |-> packet.tcp.srcport,
     destinationPort |-> packet.tcp.dstport,
     client          |-> lookup(packet, pdict),
     hassh           |-> md5(client_hassh_str(packet)),
     hasshAlgorithms |-> client_hassh_str(packet),
     hasshVersion    |-> HASSH_VERSION,
     ckex    |-> Field(packet, "kex_algorithms"),
     ceacts  |-> Field(packet, "encryption_algorithms_client_to_server"),
     cmacts  |-> Field(packet, "mac_algorithms_client_to_server"),
     ccacts  |-> Field(packet, "compression_algorithms_client_to_server"),
     clcts   |-> Field(packet, "languages_client_to_server"),
     clstc   |-> Field(packet, "languages_server_to_client"),
     ceastc  |-> Field(packet, "encryption_algorithms_server_to_client"),
     cmastc  |-> Field(packet, "mac_algorithms_server_to_client"),
     ccastc  |-> Field(packet, "compression_algorithms_server_to_client")]

\* hasshs_str = ';'.join([skex, seastc, smastc, scastc])
server_hassh_str(packet) ==
    join(<<";">>, <<Field(packet, "kex_algorithms"),
                    Field(packet, "encryption_algorithms_server_to_client"),
                    Field(packet, "mac_algorithms_server_to_client"),
                    Field(packet, "compression_algorithms_server_to_client")>>)

server_hassh(packet, pdict) ==
    [timestamp       |-> isoformat(packet.sniff_time),
     sourceIp        |-> packet.ip.src,
     destinationIp   |-> packet.ip.dst,
     sourcePort      |-> packet.tcp.srcport,
     destinationPort |-> packet.tcp.dstport,
     server          |-> lookup(packet, pdict),
     hasshServer     |-> md5(server_hassh_str(packet)),
     hasshServerAlgorithms |-> server_hassh_str(packet),
     hasshVersion    |-> HASSH_VERSION,
     skex    |-> Field(packet, "kex_algorithms"),
     seastc  |-> Field(packet, "encryption_algorithms_server_to_client"),
     smastc  |-> Field(packet, "mac_algorithms_server_to_client"),
     scastc  |-> Field(packet, "compression_algorithms_server_to_client"),
     slcts   |-> Field(packet, "languages_client_to_server"),
     slstc   |-> Field(packet, "languages_server_to_client"),
     seacts  |-> Field(packet, "encryption_algorithms_client_to_server"),
     smacts  |-> Field(packet, "mac_algorithms_client_to_server"),
     scacts  |-> Field(packet, "compression_algorithms_client_to_server")]

----------------------------------------------------------------------------
(* The loop body shared, line for line, by process_pcap_file and           *)
(* live_capture                                                            *)

\* 'message_code' in field_names and message_code == '20'
is_kexinit(packet) ==
    /\ "message_code" \in field_names(packet.ssh)
    /\ packet.ssh.message_code = <<"2", "0">>

\* mutant: the spurious retransmission flag is not looked at
is_retransmission_first_flag(packet) ==
    "analysis_retransmission" \in field_names(packet.tcp)

is_retransmission(packet) ==
    \/ "analysis_retransmission" \in field_names(packet.tcp)
    \/ "analysis_spurious_retransmission" \in field_names(packet.tcp)

\* mutant: ">=" for ">"
is_client_ge(fp, packet) ==
    /\ (fp = "client" \/ fp = "all")
    /\ int(packet.tcp.srcport) >= int(packet.tcp.dstport)

is_client(fp, packet) ==
    /\ (fp = "client" \/ fp = "all")
    /\ int(packet.tcp.srcport) > int(packet.tcp.dstport)

\* mutant: "<=" for "<"
is_server_le(fp, packet) ==
    /\ (fp = "server" \/ fp = "all")
    /\ int(packet.tcp.srcport) <= int(packet.tcp.dstport)

is_server(fp, packet) ==
    /\ (fp = "server" \/ fp = "all")
    /\ int(packet.tcp.srcport) < int(packet.tcp.dstport)

\* if 'protocol' in packet.ssh.field_names: protocol_dict[key] = protocol
observe(packet, pdict) ==
    IF "protocol" \in field_names(packet.ssh)
    THEN setitem(pdict, key(packet), packet.ssh.protocol)
    ELSE pdict

\* What one packet makes the loop body do:
\*   "skip"    one of the continue statements, or neither branch of the if/elif
\*   "raise"   a statement reads packet.ip of a packet that has none
\*   "event"   event_log(packet), "client" client_hassh, "server" server_hassh
outcome(packet, fp) ==
    IF packet.highest_layer # "SSH" THEN "skip"
    ELSE IF "protocol" \in field_names(packet.ssh) /\ AttributeError(packet, "ip")
         THEN "raise"
    ELSE IF ~is_kexinit(packet) THEN "skip"
    ELSE IF is_retransmission(packet)
         THEN IF AttributeError(packet, "ip") THEN "raise" ELSE "event"
    ELSE IF is_client(fp, packet)
         THEN IF AttributeError(packet, "ip") THEN "raise" ELSE "client"
    ELSE IF is_server(fp, packet)
         THEN IF AttributeError(packet, "ip") THEN "raise" ELSE "server"
    ELSE "skip"

\* protocol_dict after the body has run on packet (an exception raised while
\* reading packet.ip comes before the assignment)
dict_after(packet, pdict) ==
    IF packet.highest_layer # "SSH" THEN pdict
    ELSE IF "protocol" \in field_names(packet.ssh) /\ AttributeError(packet, "ip")
         THEN pdict
    ELSE observe(packet, pdict)

\* the record or event the body builds for packet; pdict is the dictionary
\* after the protocol branch
produced(packet, pdict, fp) ==
    CASE outcome(packet, fp) = "event"  -> <<event_log(packet, "retransmission")>>
      [] outcome(packet, fp) = "client" -> <<client_hassh(packet, pdict)>>
      [] outcome(packet, fp) = "server" -> <<server_hassh(packet, pdict)>>
      [] OTHER -> <<>>

----------------------------------------------------------------------------
(* process_pcap_file(pcap, fprint, da): one action per iteration of        *)
(* "for packet in cap", one for the exhausted iterator.  The try encloses  *)
(* the whole for loop: an exception leaves the loop for the except clause, *)
(* which prints it, and the function returns results without cap.close().  *)

\* what the iterations of "for packet in cap" append to results, from the
\* packets still to come and the dictionary so far; an exception ends the loop
RECURSIVE for_packet_in_cap(_, _, _)
for_packet_in_cap(packets, pdict, fp) ==
    IF packets = <<>> THEN <<>>
    ELSE LET packet == Head(packets)
             d      == dict_after(packet, pdict)
         IN produced(packet, d, fp)
              \o (IF outcome(packet, fp) = "raise" THEN <<>>
                  ELSE for_packet_in_cap(Tail(packets), d, fp))

\* the list that process_pcap_file(pcap, fprint, ...) returns
process_pcap_file(pcap, fp) == for_packet_in_cap(pcap, <<>>, fp)

\* ProcessPacket with results.insert(0, ...) in the place of results.append(...)
ProcessPacketInsertFirst ==
    /\ pc = "loop"
    /\ pos < Len(caps[fidx])
    /\ LET packet == caps[fidx][pos + 1]
           pdict  == dict_after(packet, protocol_dict)
       IN /\ pos' = pos + 1
          /\ protocol_dict' = pdict
          /\ results' = produced(packet, pdict, fprint) \o results
          /\ pc' = IF outcome(packet, fprint) = "raise" THEN "returned" ELSE "loop"
    /\ UNCHANGED <<fidx, closed, li, log>>
    /\ UNCHANGED arg_vars
    /\ UNCHANGED live_vars

\* one iteration of "for packet in cap"
ProcessPacket ==
    /\ pc = "loop"
    /\ pos < Len(caps[fidx])
    /\ LET packet == caps[fidx][pos + 1]
           pdict  == dict_after(packet, protocol_dict)
       IN /\ pos' = pos + 1
          /\ protocol_dict' = pdict
          /\ results' = results \o produced(packet, pdict, fprint)
          /\ pc' = IF outcome(packet, fprint) = "raise" THEN "returned" ELSE "loop"
    /\ UNCHANGED <<fidx, closed, li, log>>
    /\ UNCHANGED arg_vars
    /\ UNCHANGED live_vars

\* cap.close(); cap.eventloop.stop(); return results
EndOfCapture ==
    /\ pc = "loop"
    /\ pos = Len(caps[fidx])
    /\ closed' = TRUE
    /\ pc' = "returned"
    /\ UNCHANGED <<fidx, pos, protocol_dict, results, li, log>>
    /\ UNCHANGED arg_vars
    /\ UNCHANGED live_vars

----------------------------------------------------------------------------
(* Captures *)

IpA == <<"10.0.0.1">>
IpB == <<"10.0.0.2">>
Port22 == <<"2", "2">>
Port2222 == <<"2", "2", "2", "2">>
Banner1 == <<"SSH-2.0-OpenSSH_8.1">>
Banner2 == <<"SSH-2.0-libssh_0.9.6">>

\* the side of a flow a packet travels on
ClientSide == [src |-> IpA, sport |-> Port2222, dst |-> IpB, dport |-> Port22]
ServerSide == [src |-> IpB, sport |-> Port22, dst |-> IpA, dport |-> Port2222]
\* as ClientSide but for the destination port, which equals the source port
SamePorts  == [src |-> IpA, sport |-> Port2222, dst |-> IpB, dport |-> Port2222]

Flags == {"analysis_retransmission", "analysis_spurious_retransmission"}

SshPacket(side, ipv4, flags, ssh) ==
    [highest_layer |-> "SSH",
     sniff_time    |-> 0,
     tcp |-> [srcport |-> side.sport, dstport |-> side.dport]
                 @@ [f \in flags |-> <<"1">>],
     ssh |-> ssh]
    @@ (IF ipv4 THEN [ip |-> [src |-> side.src, dst |-> side.dst]] ELSE <<>>)

TcpPacket(side) ==
    [highest_layer |-> "TCP",
     sniff_time    |-> 0,
     ip  |-> [src |-> side.src, dst |-> side.dst],
     tcp |-> [srcport |-> side.sport, dstport |-> side.dport]]

\* the SSH layer of the version exchange, of SSH_MSG_KEXINIT, of SSH_MSG_NEWKEYS
BannerLayer(b) == [protocol |-> b]
NewKeysLayer == [message_code |-> <<"2", "1">>]
KexInitLayer ==
    [message_code   |-> <<"2", "0">>,
     kex_algorithms |-> <<"curve25519-sha256", ",", "ecdh-sha2-nistp256">>,
     encryption_algorithms_client_to_server  |-> <<"aes128-ctr">>,
     mac_algorithms_client_to_server         |-> <<"hmac-sha2-256">>,
     compression_algorithms_client_to_server |-> <<"none">>,
     encryption_algorithms_server_to_client  |-> <<"aes256-ctr">>,
     mac_algorithms_server_to_client         |-> <<"hmac-sha1">>,
     compression_algorithms_server_to_client |-> <<"zlib">>,
     languages_client_to_server |-> <<"en">>,
     languages_server_to_client |-> <<"de">>]

ReplayPackets ==
    {SshPacket(ClientSide, TRUE, {}, BannerLayer(Banner1)),
     SshPacket(ClientSide, TRUE, {}, BannerLayer(Banner2)),
     SshPacket(ServerSide, TRUE, {}, BannerLayer(Banner2)),
     SshPacket(SamePorts, TRUE, {}, BannerLayer(Banner2)),
     SshPacket(ClientSide, TRUE, {}, KexInitLayer),
     SshPacket(ServerSide, TRUE, {}, KexInitLayer),
     SshPacket(SamePorts, TRUE, {}, KexInitLayer),
     SshPacket(ClientSide, TRUE, {"analysis_retransmission"}, KexInitLayer),
     SshPacket(ServerSide, TRUE, {"analysis_spurious_retransmission"}, KexInitLayer),
     SshPacket(SamePorts, TRUE, {"analysis_retransmission"}, KexInitLayer),
     SshPacket(ServerSide, TRUE, {}, BannerLayer(Banner1) @@ KexInitLayer),
     SshPacket(ClientSide, FALSE, {}, KexInitLayer),
     SshPacket(ServerSide, FALSE, {"analysis_retransmission"}, KexInitLayer),
     SshPacket(ClientSide, TRUE, {}, NewKeysLayer),
     TcpPacket(ClientSide)}

\* a capture: packets in arrival order, the capture clock ticking once per packet
Stamp(s) == [i \in 1..Len(s) |-> [s[i] EXCEPT !.sniff_time = i]]

Captures(packets, n) == {Stamp(s) : s \in UNION {[1..k -> packets] : k \in 0..n}}

----------------------------------------------------------------------------
(* process_pcap_file called on one capture file *)

LiveIdle ==
    /\ live_pc = "idle"
    /\ live_pos = 0
    /\ live_dict = <<>>
    /\ live_log = <<>>
    /\ live_closed = FALSE

Init ==
    /\ caps \in {<<c>> : c \in Captures(ReplayPackets, MaxPackets)}
    /\ fprint \in {"client", "server", "all"}
    /\ lf = "none"
    /\ mode = "call"
    /\ pc = "loop"
    /\ fidx = 1
    /\ pos = 0
    /\ protocol_dict = <<>>
    /\ results = <<>>
    /\ closed = FALSE
    /\ li = 0
    /\ log = <<>>
    /\ LiveIdle

Next ==
    \/ ProcessPacket
    \/ EndOfCapture

Spec == Init /\ [][Next]_vars

----------------------------------------------------------------------------
(* Record serialisation: json.dumps and csv_logging *)

Quote == <<"\"">>

\* json.dumps of a str or None
json_value(v) == IF v = None THEN <<"null">> ELSE Quote \o v \o Quote

\* json.dumps of a dict, its keys in insertion order
RECURSIVE json_items(_, _)
json_items(keys, record) ==
    IF Len(keys) = 0 THEN Empty
    ELSE Quote \o <<keys[1]>> \o Quote \o <<":", " ">> \o json_value(record[keys[1]])
            \o (IF Len(keys) = 1 THEN Empty
                ELSE <<",", " ">> \o json_items(Tail(keys), record))

\* the keys of the dicts that event_log, client_hassh and server_hassh build
keys(record) ==
    IF "hassh" \in DOMAIN record
    THEN <<"timestamp", "sourceIp", "destinationIp", "sourcePort", "destinationPort",
           "client", "hassh", "hasshAlgorithms", "hasshVersion", "ckex", "ceacts",
           "cmacts", "ccacts", "clcts", "clstc", "ceastc", "cmastc", "ccastc">>
    ELSE IF "hasshServer" \in DOMAIN record
    THEN <<"timestamp", "sourceIp", "destinationIp", "sourcePort", "destinationPort",
           "server", "hasshServer", "hasshServerAlgorithms", "hasshVersion", "skex",
           "seastc", "smastc", "scastc", "slcts", "slstc", "seacts", "smacts", "scacts">>
    ELSE <<"timestamp", "eventType", "eventMessage", "sourceIp", "destinationIp",
           "sourcePort", "destinationPort">>

json_dumps(record) == <<"{">> \o json_items(keys(record), record) \o <<"}">>

csv_header ==
    join(<<",">>, <<<<"timestamp">>, <<"sourceIp">>, <<"destinationIp">>,
                    <<"sourcePort">>, <<"destinationPort">>, <<"hasshType">>,
                    <<"protocolString">>, <<"hassh">>, <<"hasshAlgorithms">>,
                    <<"kexAlgs">>, <<"encAlgs">>, <<"macAlgs">>, <<"cmpAlgs">>>>)

\* csv_logging(record) raises UnboundLocalError: neither branch of the
\* if/elif binds hasshType and the other locals that format() reads
UnboundLocalError(record) ==
    "hassh" \notin DOMAIN record /\ "hasshServer" \notin DOMAIN record

csv_logging(record) ==
    LET c == "hassh" \in DOMAIN record
        hasshType       == IF c THEN <<"client">> ELSE <<"server">>
        kexAlgs         == IF c THEN record.ckex ELSE record.skex
        encAlgs         == IF c THEN record.ceacts ELSE record.seastc
        macAlgs         == IF c THEN record.cmacts ELSE record.smastc
        cmpAlgs         == IF c THEN record.ccacts ELSE record.scastc
        hassh           == IF c THEN record.hassh ELSE record.hasshServer
        hasshAlgorithms == IF c THEN record.hasshAlgorithms
                           ELSE record.hasshServerAlgorithms
        protocolString  == IF c THEN record.client ELSE record.server
    IN str(record.timestamp) \o <<",">> \o str(record.sourceIp) \o <<",">>
         \o str(record.destinationIp) \o <<",">> \o str(record.sourcePort) \o <<",">>
         \o str(record.destinationPort) \o <<",">> \o str(hasshType) \o <<",">>
         \o Quote \o str(protocolString) \o Quote \o <<",">>
         \o str(hassh) \o <<",">>
         \o Quote \o str(hasshAlgorithms) \o Quote \o <<",">>
         \o Quote \o str(kexAlgs) \o Quote \o <<",">>
         \o Quote \o str(encAlgs) \o Quote \o <<",">>
         \o Quote \o str(macAlgs) \o Quote \o <<",">>
         \o Quote \o str(cmpAlgs) \o Quote

----------------------------------------------------------------------------
(* main(), reading one file (-r) or a directory of files (-d).  An         *)
(* exception that csv_logging raises is caught nowhere: main ends with it  *)
(* ("crashed").                                                            *)

\* call_process_pcap_file with protocol_dict kept from the file before
call_process_pcap_file_shared_dict(i) ==
    /\ fidx' = i
    /\ pos' = 0
    /\ protocol_dict' = protocol_dict
    /\ results' = <<>>
    /\ closed' = FALSE
    /\ pc' = "loop"

\* output = process_pcap_file(file, ...): the call, up to the for loop
call_process_pcap_file(i) ==
    /\ fidx' = i
    /\ pos' = 0
    /\ protocol_dict' = <<>>
    /\ results' = <<>>
    /\ closed' = FALSE
    /\ pc' = "loop"

\* if args.read_file: output = process_pcap_file(args.read_file, ...)
MainReadFile ==
    /\ pc = "main"
    /\ mode = "file"
    /\ call_process_pcap_file(1)
    /\ UNCHANGED <<li, log>>
    /\ UNCHANGED arg_vars
    /\ UNCHANGED live_vars

\* MainReadDirectory without "if args.log_format == 'csv': logger.info(csv_header)"
MainReadDirectoryNoHeader ==
    /\ pc = "main"
    /\ mode = "dir"
    /\ IF Len(caps) > 0
       THEN call_process_pcap_file(1)
       ELSE /\ pc' = "done"
            /\ UNCHANGED <<fidx, pos, protocol_dict, results, closed>>
    /\ UNCHANGED <<li, log>>
    /\ UNCHANGED arg_vars
    /\ UNCHANGED live_vars

\* elif args.read_directory: the header, then the first file if there is one
MainReadDirectory ==
    /\ pc = "main"
    /\ mode = "dir"
    /\ log' = IF lf = "csv" THEN Append(log, csv_header) ELSE log
    /\ IF Len(caps) > 0
       THEN call_process_pcap_file(1)
       ELSE /\ pc' = "done"
            /\ UNCHANGED <<fidx, pos, protocol_dict, results, closed>>
    /\ UNCHANGED li
    /\ UNCHANGED arg_vars
    /\ UNCHANGED live_vars

\* process_pcap_file has returned: main turns to writing output; reading one
\* file, the header is written here
MainOutput ==
    /\ pc = "returned"
    /\ mode \in {"file", "dir"}
    /\ log' = IF mode = "file" /\ lf = "csv" THEN Append(log, csv_header) ELSE log
    /\ li' = 0
    /\ pc' = "logging"
    /\ UNCHANGED <<fidx, pos, protocol_dict, results, closed>>
    /\ UNCHANGED arg_vars
    /\ UNCHANGED live_vars

\* one iteration of "for record in output"
MainLogRecord ==
    /\ pc = "logging"
    /\ lf # "none"
    /\ li < Len(results)
    /\ LET record == results[li + 1]
       IN IF lf = "csv" /\ UnboundLocalError(record)
          THEN /\ pc' = "crashed"
               /\ UNCHANGED <<li, log>>
          ELSE /\ log' = Append(log, IF lf = "json" THEN json_dumps(record)
                                     ELSE csv_logging(record))
               /\ li' = li + 1
               /\ pc' = "logging"
    /\ UNCHANGED <<fidx, pos, protocol_dict, results, closed>>
    /\ UNCHANGED arg_vars
    /\ UNCHANGED live_vars

\* the output of this file is written (or no log format was asked for):
\* the next file of the directory, or the end of main
MainNext ==
    /\ pc = "logging"
    /\ lf = "none" \/ li = Len(results)
    /\ IF mode = "dir" /\ fidx < Len(caps)
       THEN call_process_pcap_file(fidx + 1)
       ELSE /\ pc' = "done"
            /\ UNCHANGED <<fidx, pos, protocol_dict, results, closed>>
    /\ UNCHANGED <<li, log>>
    /\ UNCHANGED arg_vars
    /\ UNCHANGED live_vars

----------------------------------------------------------------------------
(* live_capture(iface, fprint, da, bpf, lf, wp).  Its for loop has the     *)
(* body of process_pcap_file's, with logger.info in the place of           *)
(* results.append; the try encloses the loop and catches KeyboardInterrupt *)
(* and SystemExit only.  Nothing in the function closes the capture.       *)

\* logger, protocol_dict, cap, and the header
LiveStart ==
    /\ live_pc = "start"
    /\ live_log' = IF lf = "csv" THEN Append(live_log, csv_header) ELSE live_log
    /\ live_dict' = <<>>
    /\ live_pc' = "sniffing"
    /\ UNCHANGED <<live_pos, live_closed>>
    /\ UNCHANGED arg_vars
    /\ UNCHANGED replay_vars

\* logged, with nothing written unless the format is json
logged_json_only(items, format) ==
    IF items = <<>> THEN <<>>
    ELSE IF format = "json" THEN <<json_dumps(items[1])>>
    ELSE <<>>

\* logged, with events written in no format
logged_records_only(items, format) ==
    IF items = <<>> \/ UnboundLocalError(items[1]) THEN <<>>
    ELSE IF format = "json" THEN <<json_dumps(items[1])>>
    ELSE IF format = "csv" THEN <<csv_logging(items[1])>>
    ELSE <<>>

\* the lines the body logs for what it produced
logged(items, format) ==
    IF items = <<>> THEN <<>>
    ELSE IF format = "json" THEN <<json_dumps(items[1])>>
    ELSE IF format = "csv" /\ ~UnboundLocalError(items[1]) THEN <<csv_logging(items[1])>>
    ELSE <<>>

\* one iteration of "for packet in cap.sniff_continuously(packet_count=0)"
LivePacket ==
    /\ live_pc = "sniffing"
    /\ live_pos < Len(caps[1])
    /\ LET packet == caps[1][live_pos + 1]
           pdict  == dict_after(packet, live_dict)
       IN /\ live_pos' = live_pos + 1
          /\ live_dict' = pdict
          /\ live_log' = live_log \o logged(produced(packet, pdict, fprint), lf)
          /\ live_pc' = IF outcome(packet, fprint) = "raise" THEN "raised"
                        ELSE "sniffing"
    /\ UNCHANGED live_closed
    /\ UNCHANGED arg_vars
    /\ UNCHANGED replay_vars

\* except (KeyboardInterrupt, SystemExit): print("Exiting..\nBYE o/\n")
LiveInterrupt ==
    /\ live_pc = "sniffing"
    /\ live_pc' = "interrupted"
    /\ UNCHANGED <<live_pos, live_dict, live_log, live_closed>>
    /\ UNCHANGED arg_vars
    /\ UNCHANGED replay_vars

----------------------------------------------------------------------------
(* client_hassh and server_hassh called on KEXINIT packets of every shape: *)
(* each of the nine algorithm and language fields present or absent, on a  *)
(* packet of either side, with a dictionary that is empty or holds a       *)
(* banner for the client side's key.                                       *)

AlgorithmFields == DOMAIN KexInitLayer \ {"message_code"}

\* KEXINIT layers that hold at most one, or all but at most one, of the fields
KexInitLayers ==
    {[f \in S \cup {"message_code"} |-> KexInitLayer[f]] :
        S \in {T \in SUBSET AlgorithmFields :
                  Cardinality(T) <= 1 \/ Cardinality(AlgorithmFields \ T) <= 1}}

KexInitPackets ==
    {SshPacket(side, TRUE, {}, layer) :
        side \in {ClientSide, ServerSide}, layer \in KexInitLayers}

Dictionaries ==
    {<<>>, observe(SshPacket(ClientSide, TRUE, {}, BannerLayer(Banner1)), <<>>)}

FpInit ==
    /\ caps \in {<<Stamp(<<a, b>>)>> : a, b \in KexInitPackets}
    /\ protocol_dict \in Dictionaries
    /\ fprint = "all"
    /\ lf = "none"
    /\ mode = "call"
    /\ pc = "fingerprint"
    /\ fidx = 1
    /\ pos = 0
    /\ results = <<>>
    /\ closed = FALSE
    /\ li = 0
    /\ log = <<>>
    /\ LiveIdle

\* record = client_hassh(packet, protocol_dict); results.append(record)
CallClientHassh ==
    /\ pc = "fingerprint"
    /\ pos < Len(caps[fidx])
    /\ results' = Append(results, client_hassh(caps[fidx][pos + 1], protocol_dict))
    /\ pos' = pos + 1
    /\ UNCHANGED <<pc, fidx, protocol_dict, closed, li, log>>
    /\ UNCHANGED arg_vars
    /\ UNCHANGED live_vars

\* record = server_hassh(packet, protocol_dict); results.append(record)
CallServerHassh ==
    /\ pc = "fingerprint"
    /\ pos < Len(caps[fidx])
    /\ results' = Append(results, server_hassh(caps[fidx][pos + 1], protocol_dict))
    /\ pos' = pos + 1
    /\ UNCHANGED <<pc, fidx, protocol_dict, closed, li, log>>
    /\ UNCHANGED arg_vars
    /\ UNCHANGED live_vars

FpNext ==
    \/ CallClientHassh
    \/ CallServerHassh

SpecFp == FpInit /\ [][FpNext]_vars

----------------------------------------------------------------------------
(* main -r FILE and main -d DIRECTORY *)

MaxFiles == 2           \* most capture files in the directory
MaxFilePackets == 1     \* longest capture file in the directory

FilePackets ==
    {SshPacket(ClientSide, TRUE, {}, BannerLayer(Banner1)),
     SshPacket(ClientSide, TRUE, {}, KexInitLayer),
     SshPacket(ServerSide, TRUE, {}, KexInitLayer),
     SshPacket(ClientSide, TRUE, {"analysis_retransmission"}, KexInitLayer),
     SshPacket(ClientSide, FALSE, {}, KexInitLayer),
     SshPacket(ClientSide, TRUE, {}, NewKeysLayer)}

DirectoryPackets ==
    {SshPacket(ClientSide, TRUE, {}, BannerLayer(Banner1)),
     SshPacket(ClientSide, TRUE, {}, KexInitLayer),
     SshPacket(ClientSide, TRUE, {"analysis_spurious_retransmission"}, KexInitLayer)}

Directories ==
    UNION {[1..k -> Captures(DirectoryPackets, MaxFilePackets)] : k \in 0..MaxFiles}

ReplayIdle ==
    /\ fidx = 1
    /\ pos = 0
    /\ protocol_dict = <<>>
    /\ results = <<>>
    /\ closed = FALSE
    /\ li = 0
    /\ log = <<>>

MainInit ==
    /\ mode \in {"file", "dir"}
    /\ caps \in IF mode = "file"
                THEN {<<c>> : c \in Captures(FilePackets, MaxPackets)}
                ELSE Directories
    /\ fprint \in IF mode = "file" THEN {"client", "server", "all"} ELSE {"all"}
    /\ lf \in {"none", "json", "csv"}
    /\ pc = "main"
    /\ ReplayIdle
    /\ LiveIdle

MainStep ==
    \/ MainReadFile
    \/ MainReadDirectory
    \/ ProcessPacket
    \/ EndOfCapture
    \/ MainOutput
    \/ MainLogRecord
    \/ MainNext

SpecMain == MainInit /\ [][MainStep]_vars

----------------------------------------------------------------------------
(* main -i INTERFACE: live_capture on the stream caps[1] *)

LivePackets ==
    {SshPacket(ClientSide, TRUE, {}, BannerLayer(Banner1)),
     SshPacket(ClientSide, TRUE, {}, KexInitLayer),
     SshPacket(ServerSide, TRUE, {}, KexInitLayer),
     SshPacket(SamePorts, TRUE, {}, KexInitLayer),
     SshPacket(ClientSide, TRUE, {"analysis_retransmission"}, KexInitLayer),
     SshPacket(ClientSide, FALSE, {}, KexInitLayer),
     TcpPacket(ClientSide)}

LiveInit ==
    /\ caps \in {<<c>> : c \in Captures(LivePackets, MaxPackets)}
    /\ fprint \in {"client", "server", "all"}
    /\ lf \in {"none", "json", "csv"}
    /\ mode = "live"
    /\ pc = "main"
    /\ ReplayIdle
    /\ live_pc = "start"
    /\ live_pos = 0
    /\ live_dict = <<>>
    /\ live_log = <<>>
    /\ live_closed = FALSE

LiveStep ==
    \/ LiveStart
    \/ LivePacket
    \/ LiveInterrupt

SpecLive == LiveInit /\ [][LiveStep]_vars

----------------------------------------------------------------------------
(* main in each of its three modes: -r FILE, -d DIRECTORY, -i INTERFACE *)

OutputInit ==
    \/ MainInit
    \/ LiveInit

OutputStep ==
    \/ MainStep
    \/ LiveStep

SpecOutput == OutputInit /\ [][OutputStep]_vars

----------------------------------------------------------------------------
(* The packets of one capture given to both drivers with the same role     *)
(* filter and log format json: replayed by main -r, and sniffed by         *)
(* live_capture.  The two runs share nothing but their input.              *)

\* packets of which none raises: all have an ip layer
SamePackets ==
    {SshPacket(ClientSide, TRUE, {}, BannerLayer(Banner1)),
     SshPacket(ServerSide, TRUE, {}, BannerLayer(Banner2) @@ KexInitLayer),
     SshPacket(ClientSide, TRUE, {}, KexInitLayer),
     SshPacket(ServerSide, TRUE, {}, KexInitLayer),
     SshPacket(ClientSide, TRUE, {"analysis_retransmission"}, KexInitLayer),
     TcpPacket(ClientSide)}

BothInit ==
    /\ caps \in {<<c>> : c \in Captures(SamePackets, MaxPackets)}
    /\ fprint \in {"client", "server", "all"}
    /\ lf = "json"
    /\ mode = "file"
    /\ pc = "main"
    /\ ReplayIdle
    /\ live_pc = "start"
    /\ live_pos = 0
    /\ live_dict = <<>>
    /\ live_log = <<>>
    /\ live_closed = FALSE

BothStep ==
    \/ MainReadFile
    \/ ProcessPacket
    \/ EndOfCapture
    \/ MainOutput
    \/ MainLogRecord
    \/ MainNext
    \/ LiveStart
    \/ LivePacket
    \/ LiveInterrupt

SpecBoth == BothInit /\ [][BothStep]_vars

----------------------------------------------------------------------------
(* Vocabulary of the properties: the capture being replayed, what its      *)
(* packets are, and which items of results a packet produced (a record or  *)
(* event carries the capture time of its packet)                           *)

cap == caps[fidx]

IsKexInit(i) ==
    /\ cap[i].highest_layer = "SSH"
    /\ "message_code" \in DOMAIN cap[i].ssh
    /\ cap[i].ssh.message_code = <<"2", "0">>

HasBanner(i) == cap[i].highest_layer = "SSH" /\ "protocol" \in DOMAIN cap[i].ssh

IsRetransmitted(i) == DOMAIN cap[i].tcp \cap Flags # {}

SrcPort(i) == int(cap[i].tcp.srcport)
DstPort(i) == int(cap[i].tcp.dstport)

\* the flow key of the data model: (sourceIP, sourcePort, destinationIP, destinationPort)
FourTuple(i) ==
    <<cap[i].ip.src, cap[i].tcp.srcport, cap[i].ip.dst, cap[i].tcp.dstport>>

ItemsOf(i) == {j \in 1..Len(results) : results[j].timestamp = <<"T" \o ToString(i)>>}

IsEvent(r) == "eventType" \in DOMAIN r
IsClientRecord(r) == "hassh" \in DOMAIN r
IsServerRecord(r) == "hasshServer" \in DOMAIN r
IsFingerprint(r) == IsClientRecord(r) \/ IsServerRecord(r)
ProtocolOf(r) == IF IsClientRecord(r) THEN r.client ELSE r.server

\* the role filter admits the direction the ports of packet i give
Admitted(i) ==
    \/ SrcPort(i) > DstPort(i) /\ fprint \in {"client", "all"}
    \/ SrcPort(i) < DstPort(i) /\ fprint \in {"server", "all"}

\* packet i is the one whose processing raised: the loop was left without
\* cap.close()
Faulted(i) == pc # "loop" /\ ~closed /\ i = pos

\* the packets with a protocol field and the four-tuple of packet i, up to
\* and including packet i
BannersFor(i) ==
    {m \in 1..i : HasBanner(m) /\ "ip" \in DOMAIN cap[m] /\ FourTuple(m) = FourTuple(i)}

Latest(S) == CHOOSE m \in S : \A n \in S : n <= m

----------------------------------------------------------------------------
(* C1 *)

\* C1 (as claimed): every KEXINIT packet replayed (without a fault) has
\* exactly one item in the result list.
C1_ExactlyOneItemPerKexInit ==
    \A i \in 1..pos :
        IsKexInit(i) /\ ~Faulted(i) => Cardinality(ItemsOf(i)) = 1

\* C1 (amended): a KEXINIT packet replayed without a fault has at most one
\* item in the result list: exactly one RetransmissionEvent when it carries
\* a retransmission flag; otherwise exactly one FingerprintRecord when its
\* ports give a direction the role filter admits; otherwise (equal ports, or
\* a filtered-out role) none.  A faulted packet has none, and the list holds
\* nothing else.
C1_AtMostOneItemPerKexInit ==
    /\ \A i \in 1..pos :
          IsKexInit(i) =>
             IF Faulted(i) THEN ItemsOf(i) = {}
             ELSE IF IsRetransmitted(i)
                  THEN /\ Cardinality(ItemsOf(i)) = 1
                       /\ \A j \in ItemsOf(i) : IsEvent(results[j]) /\ ~IsFingerprint(results[j])
             ELSE IF Admitted(i)
                  THEN /\ Cardinality(ItemsOf(i)) = 1
                       /\ \A j \in ItemsOf(i) : IsFingerprint(results[j]) /\ ~IsEvent(results[j])
             ELSE ItemsOf(i) = {}
    /\ \A j \in 1..Len(results) : \E i \in 1..pos : IsKexInit(i) /\ j \in ItemsOf(i)

C1_Witness ==
    /\ pc = "returned" /\ closed
    /\ \E i, j, k \in 1..pos :
          /\ IsKexInit(i) /\ IsRetransmitted(i) /\ ItemsOf(i) # {}
          /\ IsKexInit(j) /\ ~IsRetransmitted(j) /\ ItemsOf(j) # {}
          /\ IsKexInit(k) /\ ~IsRetransmitted(k) /\ ItemsOf(k) = {}
          /\ SrcPort(k) = DstPort(k)

----------------------------------------------------------------------------
(* C2, C3 *)

\* C2: the protocol field of the record of a KEXINIT packet is the banner of
\* the most recent packet (an earlier one, or the packet itself when it also
\* carries the protocol field) that has a protocol field and the same
\* four-tuple; banners of other four-tuples do not affect it.
C2_BannerOfSameFourTuple ==
    \A i \in 1..pos : \A j \in ItemsOf(i) :
        IsFingerprint(results[j]) /\ BannersFor(i) # {} =>
            ProtocolOf(results[j]) = cap[Latest(BannersFor(i))].ssh.protocol

\* C3: a KEXINIT packet whose exact four-tuple has had no protocol-string
\* packet yields a record without a protocol, whatever was recorded for
\* other four-tuples.
C3_NoBannerForFourTuple ==
    \A i \in 1..pos : \A j \in ItemsOf(i) :
        IsFingerprint(results[j]) /\ BannersFor(i) = {} =>
            ProtocolOf(results[j]) = None

----------------------------------------------------------------------------
(* C4 *)

----------------------------------------------------------------------------
(* C6 *)

----------------------------------------------------------------------------
(* C9 *)

\* C9: when process_pcap_file has returned, every KEXINIT packet of the
\* capture that can be processed without a fault (it has its IPv4 layer) and
\* is retransmitted or of an admitted direction has its item in the result
\* list, also when an earlier packet faulted.
C9_ReplayContinuesAfterFault ==
    pc = "returned" =>
        \A i \in 1..Len(cap) :
            /\ IsKexInit(i)
            /\ "ip" \in DOMAIN cap[i]
            /\ (IsRetransmitted(i) \/ Admitted(i))
            => ItemsOf(i) # {}

----------------------------------------------------------------------------
(* C7, C8 *)

\* the value of an SSH field of packet i, the empty string when absent
Value(i, name) == IF name \in DOMAIN cap[i].ssh THEN cap[i].ssh[name] ELSE <<>>

ClientToServer(i) ==
    <<Value(i, "encryption_algorithms_client_to_server"),
      Value(i, "mac_algorithms_client_to_server"),
      Value(i, "compression_algorithms_client_to_server")>>

ServerToClient(i) ==
    <<Value(i, "encryption_algorithms_server_to_client"),
      Value(i, "mac_algorithms_server_to_client"),
      Value(i, "compression_algorithms_server_to_client")>>

InputString(r) == IF IsClientRecord(r) THEN r.hasshAlgorithms ELSE r.hasshServerAlgorithms
Digest(r) == IF IsClientRecord(r) THEN r.hassh ELSE r.hasshServer

\* C7: the fingerprint input string of a record is kex;enc;mac;cmp of the
\* record's own direction, an absent field giving an empty segment, and its
\* digest is the MD5 of that string: records with equal input strings have
\* equal digests.
C7_InputStringAndDigest ==
    /\ \A i \in 1..pos : \A j \in ItemsOf(i) :
          LET r == results[j]
              own == IF IsClientRecord(r) THEN ClientToServer(i) ELSE ServerToClient(i)
          IN IsFingerprint(r) =>
               /\ InputString(r) = Value(i, "kex_algorithms") \o <<";">> \o own[1]
                                     \o <<";">> \o own[2] \o <<";">> \o own[3]
               /\ Digest(r) = <<"md5:" \o ToString(InputString(r))>>
    /\ \A j, k \in 1..Len(results) :
          InputString(results[j]) = InputString(results[k])
             => Digest(results[j]) = Digest(results[k])

C7_Witness ==
    /\ Len(results) = 2
    /\ IsClientRecord(results[1]) /\ IsServerRecord(results[2])
    /\ DOMAIN cap[1].ssh = {"message_code"}
    /\ results[1].hasshAlgorithms = <<";", ";", ";">>
    /\ DOMAIN cap[2].ssh = DOMAIN KexInitLayer
    /\ Len(results[2].hasshServerAlgorithms) = 9

\* C8: two packets that agree on kex and on the client-to-server lists get
\* the same client input string and digest, whatever their server-to-client
\* lists, language lists and banners; symmetrically for server_hassh.
C8_RolesIndependent ==
    \A i, k \in 1..pos : \A j \in ItemsOf(i), l \in ItemsOf(k) :
        /\ ( /\ IsClientRecord(results[j]) /\ IsClientRecord(results[l])
             /\ Value(i, "kex_algorithms") = Value(k, "kex_algorithms")
             /\ ClientToServer(i) = ClientToServer(k) )
           => /\ results[j].hasshAlgorithms = results[l].hasshAlgorithms
              /\ results[j].hassh = results[l].hassh
        /\ ( /\ IsServerRecord(results[j]) /\ IsServerRecord(results[l])
             /\ Value(i, "kex_algorithms") = Value(k, "kex_algorithms")
             /\ ServerToClient(i) = ServerToClient(k) )
           => /\ results[j].hasshServerAlgorithms = results[l].hasshServerAlgorithms
              /\ results[j].hasshServer = results[l].hasshServer

\* two client records with one digest, of packets that differ in a
\* server-to-client list, in a language list and in their banner
C8_Witness ==
    /\ Len(results) = 2
    /\ IsClientRecord(results[1]) /\ IsClientRecord(results[2])
    /\ results[1].hassh = results[2].hassh
    /\ ServerToClient(1) # ServerToClient(2)
    /\ results[1].client # results[2].client
    /\ Value(1, "kex_algorithms") # <<>>

----------------------------------------------------------------------------
(* C5 *)

\* the delimited row of a FingerprintRecord
RowOf(r) ==
    LET own == IF IsClientRecord(r) THEN <<<<"client">>, r.ckex, r.ceacts, r.cmacts, r.ccacts>>
               ELSE <<<<"server">>, r.skex, r.seastc, r.smastc, r.scastc>>
        banner == IF ProtocolOf(r) = None THEN <<"None">> ELSE ProtocolOf(r)
        q(x) == <<"\"">> \o x \o <<"\"">>
        c == <<",">>
    IN r.timestamp \o c \o r.sourceIp \o c \o r.destinationIp \o c \o r.sourcePort
         \o c \o r.destinationPort \o c \o own[1] \o c \o q(banner) \o c
         \o Digest(r) \o c \o q(InputString(r)) \o c \o q(own[2]) \o c
         \o q(own[3]) \o c \o q(own[4]) \o c \o q(own[5])

RECURSIVE Rows(_)
Rows(items) ==
    IF items = <<>> THEN <<>>
    ELSE (IF IsFingerprint(items[1]) THEN <<RowOf(items[1])>> ELSE <<>>)
            \o Rows(Tail(items))

\* C5 (main): when main has ended after writing delimited output, the log
\* is the header followed by one row for each FingerprintRecord, in the
\* order of the result list; a RetransmissionEvent gives no row and costs
\* no other record its row.  (Reading a directory, the rows of the last
\* file end the log.)
C5_CsvRowPerFingerprint ==
    lf = "csv" /\ pc \in {"done", "crashed"} =>
        /\ Len(log) >= 1
        /\ log[1] = csv_header
        /\ LET rows == Rows(results)
           IN /\ Len(log) >= 1 + Len(rows)
              /\ mode = "file" => Len(log) = 1 + Len(rows)
              /\ \A k \in 1..Len(rows) : log[Len(log) - Len(rows) + k] = rows[k]

----------------------------------------------------------------------------
(* C10 *)

\* C10: live_capture leaves its loop on the operator's interrupt only.
C10_StopsOnInterruptOnly ==
    live_pc \in {"start", "sniffing", "interrupted"}

----------------------------------------------------------------------------
(* C11 *)

\* C11: when the operator's interrupt ends live_capture, the capture that
\* live_capture opened has been closed by the time it returns.
C11_ReleasedOnInterrupt ==
    live_pc = "interrupted" => live_closed

----------------------------------------------------------------------------
(* C12 *)

\* the output stream of the run: the log of main, or of live_capture
Stream == IF mode = "live" THEN live_log ELSE log

\* main, or live_capture, has ended (normally, by interrupt or by an exception)
Ended ==
    IF mode = "live" THEN live_pc \in {"interrupted", "raised"}
    ELSE pc \in {"done", "crashed"}

\* C12: with log format csv, reading one file, a directory of any number of
\* files, or a live interface, the first line of the output is the header
\* row, whatever rows follow it, and a run that has ended has written the
\* header even if it wrote no row.
C12_HeaderFirst ==
    lf = "csv" =>
        /\ Stream # <<>> => Stream[1] = csv_header
        /\ \A k \in 2..Len(Stream) : Stream[k] # csv_header
        /\ Ended => Stream # <<>>

\* a directory of two files ends with the header and one row, of its second file
C12_Witness ==
    /\ lf = "csv"
    /\ mode = "dir"
    /\ Len(caps) = 2
    /\ pc = "done"
    /\ Len(log) = 2
    /\ log[1] = csv_header
    /\ log[2] = csv_logging(results[1])

----------------------------------------------------------------------------
(* C13 *)

\* what a reader of the delimited form does with a row: split it on the
\* commas outside double quotes, and drop the quotes
RECURSIVE SplitRow(_, _, _)
SplitRow(row, field, quoted) ==
    IF row = <<>> THEN <<field>>
    ELSE IF row[1] = "\"" THEN SplitRow(Tail(row), field, ~quoted)
    ELSE IF row[1] = "," /\ ~quoted THEN <<field>> \o SplitRow(Tail(row), <<>>, FALSE)
    ELSE SplitRow(Tail(row), Append(field, row[1]), quoted)

\* the values of the structured record r, in the order of the row's columns
Columns(r) ==
    LET c == IsClientRecord(r)
    IN <<r.timestamp, r.sourceIp, r.destinationIp, r.sourcePort, r.destinationPort,
         IF c THEN <<"client">> ELSE <<"server">>,
         ProtocolOf(r), Digest(r), InputString(r),
         IF c THEN r.ckex ELSE r.skex,
         IF c THEN r.ceacts ELSE r.seastc,
         IF c THEN r.cmacts ELSE r.smastc,
         IF c THEN r.ccacts ELSE r.scastc>>

\* the records of the file just replayed whose rows main has written so far
Written == IF pc \in {"logging", "crashed", "done"} THEN 1..li ELSE {}

\* C13: the row that csv_logging writes for a fingerprint record, split on the
\* commas outside quotes and stripped of its quotes, gives back the values
\* of the record: timestamp, addresses, ports, role, protocol string,
\* fingerprint, input string and the four lists of the record's direction.
C13_CsvRoundTrip ==
    lf = "csv" =>
        \A k \in Written :
            SplitRow(log[Len(log) - li + k], <<>>, FALSE) = Columns(results[k])

----------------------------------------------------------------------------
(* C14 *)

\* packet i is one that produces an item: a KEXINIT that is retransmitted
\* (an event) or whose direction the role filter admits (a record)
Producing(i) == IsKexInit(i) /\ (IsRetransmitted(i) \/ Admitted(i))

\* the producing packets among the first n of the capture, in arrival order
ProducingUpTo(n) == SelectSeq([i \in 1..n |-> i], LAMBDA i : Producing(i))

\* C14: as long as no packet has faulted, the result list holds one item for
\* each producing packet replayed so far and nothing else, in the packets'
\* order of arrival; so the list returned for a fault-free capture is
\* complete and ordered.
C14_CompleteAndOrdered ==
    pc = "loop" \/ closed =>
        /\ Len(results) = Len(ProducingUpTo(pos))
        /\ \A k \in 1..Len(results) :
              results[k].timestamp = isoformat(ProducingUpTo(pos)[k])

\* a returned list of two items whose packets had a non-producing one between
C14_Witness ==
    /\ pc = "returned" /\ closed
    /\ pos = 3
    /\ Producing(1) /\ ~Producing(2) /\ Producing(3)
    /\ Len(results) = 2
    /\ IsEvent(results[1]) /\ IsFingerprint(results[2])

----------------------------------------------------------------------------
(* C15 *)

\* the data lines of the sink of live_capture: its lines but the header
SinkLines == IF lf = "csv" THEN Tail(live_log) ELSE live_log

\* the capture time a reader finds in a line: the first column of a row, the
\* value of the first member ({"timestamp": "...) of an object
TimestampOf(line) ==
    IF lf = "csv" THEN SplitRow(line, <<>>, FALSE)[1] ELSE <<line[8]>>

\* the lines of the sink are those of the packets in the sequence s, in order
LinesAreOf(s) ==
    /\ Len(SinkLines) = Len(s)
    /\ \A k \in 1..Len(SinkLines) : TimestampOf(SinkLines[k]) = isoformat(s[k])

\* no packet of the stream has faulted
Sniffing == live_pc \in {"sniffing", "interrupted"}

\* C15 (as claimed): with a log format configured, after any fault-free
\* prefix of the stream the sink holds the line of every record and every
\* event produced for the packets of the prefix, in their order.
C15_EveryItemWritten ==
    lf \in {"json", "csv"} /\ Sniffing => LinesAreOf(ProducingUpTo(live_pos))

\* the producing packets whose item the format writes: all of them for json;
\* for csv those that produce a record, not an event
WrittenUpTo(n) ==
    SelectSeq(ProducingUpTo(n), LAMBDA i : lf = "json" \/ ~IsRetransmitted(i))

\* C15 (amended): with a log format configured, after any fault-free prefix
\* of the stream the sink holds exactly the output for the prefix, in the
\* packets' order: for json the line of every record and every event
\* produced so far; for csv the row of every record produced so far, and no
\* line for an event.
C15_SinkIsOutputOfPrefix ==
    lf \in {"json", "csv"} /\ Sniffing => LinesAreOf(WrittenUpTo(live_pos))

\* json: an event and a record written, a non-producing packet between them
C15_Witness ==
    /\ lf = "json"
    /\ live_pc = "sniffing"
    /\ live_pos = 3
    /\ Producing(1) /\ IsRetransmitted(1)
    /\ ~Producing(2)
    /\ Producing(3) /\ ~IsRetransmitted(3)
    /\ Len(live_log) = 2
    /\ live_log[2] = json_dumps(client_hassh(cap[3], live_dict))

----------------------------------------------------------------------------
(* C16 *)

\* the five audit fields of record r: the three lists of the direction
\* opposite to its own, and the two language lists (client to server, server
\* to client)
PeerLists(r) ==
    IF IsClientRecord(r) THEN <<r.ceastc, r.cmastc, r.ccastc>>
    ELSE <<r.seacts, r.smacts, r.scacts>>

Languages(r) ==
    IF IsClientRecord(r) THEN <<r.clcts, r.clstc>> ELSE <<r.slcts, r.slstc>>

\* C16: in every fingerprint record, each list of the peer's direction and
\* each of the two language lists is the packet's value of that field when the
\* packet has it and the empty string when it has not, whatever the other
\* fields are; none is null.
C16_PeerAndLanguageFields ==
    \A i \in 1..pos : \A j \in ItemsOf(i) :
        LET r == results[j]
        IN /\ PeerLists(r) = IF IsClientRecord(r) THEN ServerToClient(i)
                             ELSE ClientToServer(i)
           /\ Languages(r) = <<Value(i, "languages_client_to_server"),
                               Value(i, "languages_server_to_client")>>
           /\ \A k \in 1..3 : PeerLists(r)[k] # None
           /\ \A k \in 1..2 : Languages(r)[k] # None

\* a client record of a packet that lacks only its server-to-client MAC list,
\* and a server record of a packet that has only a language list
C16_Witness ==
    /\ Len(results) = 2
    /\ IsClientRecord(results[1])
    /\ DOMAIN cap[1].ssh = DOMAIN KexInitLayer \ {"mac_algorithms_server_to_client"}
    /\ results[1].cmastc = Empty
    /\ results[1].ceastc = KexInitLayer.encryption_algorithms_server_to_client
    /\ IsServerRecord(results[2])
    /\ DOMAIN cap[2].ssh = {"message_code", "languages_server_to_client"}
    /\ results[2].slstc = KexInitLayer.languages_server_to_client
    /\ results[2].slcts = Empty
    /\ results[2].seacts = Empty

----------------------------------------------------------------------------
(* C17 *)

\* the own key of packet i: its flow key, the four-tuple (sourceIP,
\* sourcePort, destinationIP, destinationPort), in the cache's notation
FlowKey(i) ==
    cap[i].ip.src \o <<":">> \o cap[i].tcp.srcport \o <<"_">>
        \o cap[i].ip.dst \o <<":">> \o cap[i].tcp.dstport

\* the keys at which a step changes the cache: new ones, and rewritten ones
ChangedKeys ==
    {q \in DOMAIN protocol_dict' :
        q \notin DOMAIN protocol_dict \/ protocol_dict'[q] # protocol_dict[q]}

\* C17: a step of the replay changes the banner cache only when it
\* processes a packet that carries a protocol field, and then only at that
\* packet's own key; every other packet (KEXINIT, another message code,
\* non-SSH) leaves it as it is, and no step removes a key.
C17_CacheChangedAtOwnKeyOnly ==
    [][ /\ DOMAIN protocol_dict \subseteq DOMAIN protocol_dict'
        /\ \A q \in ChangedKeys :
              /\ pos' = pos + 1
              /\ HasBanner(pos')
              /\ q = FlowKey(pos') ]_vars

----------------------------------------------------------------------------
(* C18 *)

\* the direction of KEXINIT packet i is one the role filter excludes
FilteredOut(i) ==
    \/ SrcPort(i) > DstPort(i) /\ fprint = "server"
    \/ SrcPort(i) < DstPort(i) /\ fprint = "client"

\* the events of a result list, in order
Events(items) == SelectSeq(items, IsEvent)

\* C18: the role filter restricts fingerprint records only.  With filter
\* client the list holds no server record, with filter server no client
\* record; a KEXINIT packet (not retransmitted) of the filtered-out role has
\* no item; and the events of the returned list are those that the replay of
\* the same capture returns under each of the three filter values.
C18_FilterRestrictsRecordsOnly ==
    /\ \A j \in 1..Len(results) :
          /\ fprint = "client" => ~IsServerRecord(results[j])
          /\ fprint = "server" => ~IsClientRecord(results[j])
    /\ \A i \in 1..pos :
          IsKexInit(i) /\ ~IsRetransmitted(i) /\ FilteredOut(i) => ItemsOf(i) = {}
    /\ pc = "returned" =>
          \A fp \in {"client", "server", "all"} :
              Events(process_pcap_file(cap, fp)) = Events(results)

----------------------------------------------------------------------------
(* C19 *)

\* no packet of the capture lacks the ip layer that the code reads
FaultFree == \A i \in 1..Len(cap) : "ip" \in DOMAIN cap[i]

\* the replay has processed its first n packets and not more
ReplayedTo(n) == pc \in {"loop", "returned", "logging", "done"} /\ pos = n

\* live_capture has processed its first n packets and not more
SniffedTo(n) == live_pc \in {"sniffing", "interrupted"} /\ live_pos = n

\* C19: for a fault-free capture, the same role filter and log format json,
\* the objects main logs from the list of process_pcap_file are, item for
\* item and in order, the objects live_capture logs for the same packets:
\* at every moment the shorter of the two logs is a prefix of the other, and
\* they are equal once main has logged its list and live_capture has taken
\* the last packet.  After the same number of packets the banner caches of
\* the two runs are equal.
C19_ReplayEqualsStreaming ==
    FaultFree /\ lf = "json" =>
        /\ \A k \in 1..Len(log) : k <= Len(live_log) => log[k] = live_log[k]
        /\ pc = "done" /\ SniffedTo(Len(cap)) => log = live_log
        /\ \A n \in 0..Len(cap) :
              ReplayedTo(n) /\ SniffedTo(n) => protocol_dict = live_dict

\* both runs have ended on three packets: a banner, a retransmitted KEXINIT
\* and a KEXINIT whose record carries the banner
C19_Witness ==
    /\ pc = "done"
    /\ SniffedTo(3) /\ Len(cap) = 3
    /\ HasBanner(1)
    /\ Len(log) = 2 /\ log = live_log
    /\ IsEvent(results[1])
    /\ IsClientRecord(results[2]) /\ results[2].client = Banner1
    /\ protocol_dict # <<>> /\ protocol_dict = live_dict

----------------------------------------------------------------------------
(* C20 *)

\* the banners that the packets of the current file carry, up to packet n
BannersUpTo(n) == {cap[m].ssh.protocol : m \in {k \in 1..n : HasBanner(k)}}

\* C20: every call of process_pcap_file starts its loop with an empty
\* cache, and what the cache holds comes from the packets of the file being
\* replayed; so the protocol field of a record is null or a banner that a
\* packet of the same file carried, not later than the record's packet, and
\* never a banner of a file replayed before, equal keys or not.
C20_CachePerCapture ==
    /\ pc = "loop" /\ pos = 0 => protocol_dict = <<>>
    /\ \A q \in DOMAIN protocol_dict : protocol_dict[q] \in BannersUpTo(pos)
    /\ \A i \in 1..pos : \A j \in ItemsOf(i) :
          IsFingerprint(results[j]) =>
              ProtocolOf(results[j]) \in {None} \cup BannersUpTo(i)

\* a directory of two files, a banner in the first and a KEXINIT of the same
\* key in the second: its record has no banner
C20_Witness ==
    /\ mode = "dir"
    /\ Len(caps) = 2
    /\ Len(caps[1]) = 1 /\ Len(caps[2]) = 1
    /\ fidx = 2 /\ pos = 1
    /\ "protocol" \in DOMAIN caps[1][1].ssh
    /\ key(caps[1][1]) = key(caps[2][1])
    /\ Len(results) = 1
    /\ IsClientRecord(results[1])
    /\ results[1].client = None

====
